---- MODULE Spec2Model ----
(***************************************************************************)
(* solar_calculator.py: the hourly energy dispatch of a household with     *)
(* solar panels and an optional battery, and the totals derived from it.   *)
(*                                                                         *)
(* The script is module-level code that runs top to bottom; pc names the   *)
(* step ("--- Step N ---" in the source) that runs next.  Python floats     *)
(* are modelled as exact rationals [n |-> numerator, d |-> denominator]    *)
(* in lowest terms with d > 0, so that equal numbers are equal records:    *)
(* the model states the arithmetic of the reals, not the rounding of       *)
(* IEEE-754 doubles.                                                       *)
(***************************************************************************)
EXTENDS Integers, Sequences, FiniteSets, TLC

VARIABLES
    pc,                 \* the step of the script that runs next
    combined,           \* the DataFrame: column name -> sequence of values
    use_battery,        \* line 77
    battery_capacity,   \* lines 80 / 86
    max_charge_rate,    \* lines 81 / 87
    max_discharge_rate, \* lines 82 / 88
    round_trip_eff,     \* lines 83 / 89
    n,                  \* line 93
    soc,                \* line 102, the state of charge carried by the loop
    i,                  \* the loop variable of line 103 (0-based, as in Python)
    solar_only,         \* the dict of lines 168-173
    battery,            \* the totals of lines 180-186
    writes,             \* history: the row indices the loop has recorded, in order
    run,                \* history: 1 in the first execution of the script, 2 in a re-run
    first_run,          \* history: the DataFrame the first execution ended with
    solar_data,         \* line 51, the provider's frame
    meter_data,         \* lines 52-57, the meter's frame
    is_peak,            \* line 160
    feedin_rate,        \* line 161
    total_days,         \* line 164
    supply_charge_total, \* line 165
    system_cost,        \* line 193
    payback_years,      \* line 194
    entry,              \* the file python was started with
    files,              \* the files that exist on disk
    stdin,              \* sys.stdin: the terminal, or the lines of a StringIO
    params,             \* the answers main() has collected, lines 351-369
    log                 \* history: the prompts answered and the files written

\* The frames that line 60 merges.
mergeVars == <<solar_data, meter_data>>

\* The names of Step 8 and of the payback, lines 154-165 and 193-194.
costVars == <<is_peak, feedin_rate, total_days, supply_charge_total,
              system_cost, payback_years>>

\* The process and its environment.
ioVars == <<entry, files, stdin, params, log>>

vars == <<pc, combined, use_battery, battery_capacity, max_charge_rate,
          max_discharge_rate, round_trip_eff, n, soc, i, solar_only, battery,
          writes, run, first_run, mergeVars, costVars, ioVars>>

----------------------------------------------------------------------------
(* Bounds of the model.                                                    *)

\* The longest aligned dataset that is explored.
MaxLen == 2

\* The aligned intervals that a dataset is built from, as <<ac, usage>>: the
\* provider's "ac" in watts (line 64 divides it by 1000) and the meter's
\* "Usage already billed" in kWh (line 57).  Solar above, below and without
\* usage, and usage without solar.
IntervalVals ==
    {<<6000, 1>>, <<5000, 2>>, <<10000, 0>>, <<3000, 5>>, <<0, 4>>}

\* What the user types at the float(input(...)) prompts of lines 80-82.
CapacityVals == {-1, 0, 5, 10}
ChargeRateVals == {-1, 0, 5, 10}
DischargeRateVals == {-1, 0, 3, 5}

\* What the user types at the efficiency prompt of line 83, in percent.
EffPctVals == {0, 50, 90, 100, 110}

\* What the user types at the y/n prompt of line 77.
AnswerVals == {"y", " Y ", "n", ""}

\* What the user types at the prompts of main(), lines 336-368.
TerminalTexts == {"y", "Y", "n", "1"}

\* What the user types at the system cost prompt of line 193, in dollars.
SystemCostVals == {0, 8}

\* The readings of the meter file that the merge is explored with, as
\* <<Date, Time, usage>>: Date in days since 2024-01-01, Time as <<H, M>>.
\* Hours that the provider's series has, a half-hour reading and readings of
\* the second day, which a provider's series of a few hours does not reach.
MeterVals ==
    {<<0, <<0, 0>>, 1>>, <<0, <<1, 0>>, 5>>, <<0, <<0, 30>>, 4>>,
     <<0, <<2, 0>>, 2>>, <<1, <<0, 0>>, 3>>, <<1, <<1, 0>>, 6>>}

\* The provider's "ac" values of those datasets, in watts.
AcVals == {0, 3000}

\* The timestamps of the datasets whose money is explored, in minutes since
\* 2024-01-01 00:00: the hours 14, 15, 20 and 21 of the first day (around
\* both ends of the peak window) and the hour 15 of the third day (a gap of
\* one day).
TariffTimes == {840, 900, 1200, 1260, 3780}

\* The battery configurations of those datasets, as <<use_battery, capacity,
\* charge rate, discharge rate, efficiency in percent>>: what Step 6 leaves
\* for "n" and for four batteries.
TariffConfigs ==
    {<<FALSE, 0, 0, 0, 100>>, <<TRUE, 5, 5, 3, 100>>, <<TRUE, 10, 5, 5, 50>>,
     <<TRUE, 0, 5, 3, 100>>, <<TRUE, 1, 1, 1, 50>>}

----------------------------------------------------------------------------
(* Exact arithmetic for the floats of the script.                          *)

RECURSIVE GCD(_, _)
GCD(a, b) == IF b = 0 THEN a ELSE GCD(b, a % b)

Abs(x) == IF x < 0 THEN -x ELSE x

\* float('nan'), what pandas reads from an empty CSV cell: not a number,
\* 0/0.  Arithmetic on it gives NaN and every comparison with it is False.
NaN == [n |-> 0, d |-> 0]

IsNaN(a) == a = NaN

\* float('inf'), line 194.
Inf == [n |-> 1, d |-> 0]

\* The rational num/den (den > 0) in lowest terms; NaN for 0/0.
Rat(num, den) ==
    LET g == GCD(Abs(num), den)
    IN  IF g = 0 THEN NaN ELSE [n |-> num \div g, d |-> den \div g]

\* A float that holds an integer value.
R(k) == [n |-> k, d |-> 1]

\* a + b.  With one NaN the sum below is 0/0; with two, g is 0.
RAdd(a, b) ==
    LET g == GCD(a.d, b.d)
    IN  IF g = 0 THEN NaN
        ELSE Rat(a.n * (b.d \div g) + b.n * (a.d \div g), (a.d \div g) * b.d)

RNeg(a) == [n |-> -a.n, d |-> a.d]

RSub(a, b) == RAdd(a, RNeg(b))

RMul(a, b) == Rat(a.n * b.n, a.d * b.d)

\* a / k for a positive integer k.
RDivInt(a, k) == Rat(a.n, a.d * k)

\* a / b for a positive number b.
RDiv(a, b) == Rat(a.n * b.d, a.d * b.n)

\* a < b, False when either is NaN (both sides below are 0 with one NaN).
RLt(a, b) ==
    LET g == GCD(a.d, b.d)
    IN  g # 0 /\ a.n * (b.d \div g) < b.n * (a.d \div g)

RLeq(a, b) == a.d # 0 /\ b.d # 0 /\ ~RLt(b, a)

\* a > 0, False for NaN.
RPos(a) == a.n > 0

\* Python's min(a, b): b when b < a, else a.
RMin(a, b) == IF RLt(b, a) THEN b ELSE a

\* np.minimum(a, b): the smaller number, NaN when either is NaN.
NpMinimum(a, b) == IF b.d = 0 THEN b ELSE RMin(a, b)

\* np.maximum(a, b): the larger number, NaN when either is NaN.
RMax(a, b) == IF b.d = 0 THEN b ELSE IF RLt(a, b) THEN b ELSE a

RECURSIVE RSum(_)
\* Series.sum(): the sum of the numbers of a column (skipna is True by
\* default, a NaN adds nothing), 0 for an empty one.
RSum(col) ==
    IF col = <<>> THEN R(0)
    ELSE IF col[1].d = 0 THEN RSum(Tail(col))
    ELSE RAdd(col[1], RSum(Tail(col)))

----------------------------------------------------------------------------
(* The value of a name the script has not assigned yet: no number (a       *)
(* denominator of 0), so that it differs from every float.                 *)

None == [n |-> -1, d |-> 0]

----------------------------------------------------------------------------
(* Timestamps.  A datetime is a number of minutes since 2024-01-01 00:00,  *)
(* the first hour of the provider's year (Solar_data.py line 306).         *)

\* Series.dt.hour
Hour(t) == (t \div 60) % 24

\* Series.dt.date, as a number of days since 2024-01-01.
Date(t) == t \div 1440

\* line 56, pd.to_datetime(Date + " " + Time, format="%Y-%m-%d %H:%M"): the
\* meter's Date is a number of days since 2024-01-01, its Time is <<H, M>>.
ToDatetime(date, time) == date * 1440 + time[1] * 60 + time[2]

\* pd.date_range(start="2024-01-01 00:00:00", periods=len, freq="H"),
\* Solar_data.py line 306.
DateRange(len) == [k \in 1..len |-> 60 * (k - 1)]

----------------------------------------------------------------------------
(* Step 4, lines 56-60: the meter's timestamps and the merge.              *)

\* lines 56-57: the meter's frame with its datetime column and with
\* "Usage already billed" renamed to usage_kwh.
PrepareMeter(raw) ==
    [datetime |-> [k \in 1..Len(raw.Date) |->
                      ToDatetime(raw.Date[k], raw.Time[k])],
     usage_kwh |-> raw.usage_billed]

\* The pairs <<l, r>> of a left and a right row with equal keys, in the order
\* of the left rows and, for one left row, of the right rows.
MergePairs(ld, rd) ==
    LET nl == Len(ld)
        nr == Len(rd)
        all == [k \in 1..(nl * nr) |->
                   <<((k - 1) \div nr) + 1, ((k - 1) % nr) + 1>>]
    IN  SelectSeq(all, LAMBDA q : ld[q[1]] = rd[q[2]])

MergeInner_Left(left, right) ==
    LET matched(l) == {r \in 1..Len(right.datetime) :
                          right.datetime[r] = left.datetime[l]}
    IN  [datetime |-> left.datetime,
         ac |-> left.ac,
         usage_kwh |-> [l \in 1..Len(left.datetime) |->
                           IF matched(l) = {} THEN NaN
                           ELSE right.usage_kwh[CHOOSE r \in matched(l) :
                                                   \A q \in matched(l) : r <= q]]]

\* line 60, pd.merge(left, right, on="datetime", how="inner"): one row per
\* pair of MergePairs, with the columns of both frames (of the provider's
\* columns the script reads "ac" only).
MergeInner(left, right) ==
    LET pairs == MergePairs(left.datetime, right.datetime)
    IN  [datetime |-> [k \in 1..Len(pairs) |-> left.datetime[pairs[k][1]]],
         ac |-> [k \in 1..Len(pairs) |-> left.ac[pairs[k][1]]],
         usage_kwh |-> [k \in 1..Len(pairs) |-> right.usage_kwh[pairs[k][2]]]]

\* lines 56-60
Merge ==
    /\ pc = "merge"
    /\ meter_data' = PrepareMeter(meter_data)
    /\ combined' = MergeInner(solar_data, PrepareMeter(meter_data))
    /\ pc' = "solar_only"
    /\ UNCHANGED <<use_battery, battery_capacity, max_charge_rate,
                   max_discharge_rate, round_trip_eff, n, soc, i, solar_only,
                   battery, writes, run, first_run, solar_data>>
    /\ UNCHANGED <<costVars, ioVars>>

----------------------------------------------------------------------------
(* The files of the script.                                                *)

\* line 41
SolarFile == "solar_results/solar_pvwatts_data.csv"

\* line 42
MeterFile == "Synergy Data/HourlyMeterData.csv"

\* sys.stdin when the process reads from the terminal.
Tty == [tty |-> TRUE, lines |-> <<>>]

\* The names that Steps 5 to 10 assign are not assigned yet.
Unassigned ==
    /\ use_battery = None
    /\ battery_capacity = None
    /\ max_charge_rate = None
    /\ max_discharge_rate = None
    /\ round_trip_eff = None
    /\ n = None
    /\ soc = None
    /\ i = None
    /\ solar_only = None
    /\ battery = None
    /\ is_peak = None
    /\ feedin_rate = None
    /\ total_days = None
    /\ supply_charge_total = None
    /\ system_cost = None
    /\ payback_years = None

\* The script was started from the terminal and has read both files.
Interactive ==
    /\ entry = "script"
    /\ files = {SolarFile, MeterFile}
    /\ stdin = Tty
    /\ params = None
    /\ log = <<>>

\* The state after the merge of line 60: the DataFrame has one row per aligned
\* interval, with the provider's "ac" and the meter's "usage_kwh".  Both
\* series cover the same hours, from the first hour of the provider's year.
Init ==
    /\ pc = "solar_only"
    /\ \E len \in 0..MaxLen :
         \E rows \in [1..len -> IntervalVals] :
            /\ solar_data = [datetime |-> DateRange(len),
                             ac |-> [k \in 1..len |-> R(rows[k][1])]]
            /\ meter_data = [datetime |-> DateRange(len),
                             usage_kwh |-> [k \in 1..len |-> R(rows[k][2])]]
    /\ combined = MergeInner(solar_data, meter_data)
    /\ Unassigned
    /\ Interactive
    /\ writes = <<>>
    /\ run = 1
    /\ first_run = None

----------------------------------------------------------------------------
(* Step 5, lines 64-73: the solar-only columns.                            *)

\* line 64: watts to kWh.
SolarKwh(ac) == RDivInt(ac, 1000)

\* line 71
SelfConsumedSolarOnly(solar, usage) == NpMinimum(solar, usage)

ExportedSolarOnly_Unclamped(solar, usage) == RSub(solar, usage)

\* line 72
ExportedSolarOnly(solar, usage) == RMax(RSub(solar, usage), R(0))

\* line 73
ImportedSolarOnly(solar, usage) == RMax(RSub(usage, solar), R(0))

\* lines 64-73: the frame with the columns of Step 5.
WithSolarOnlyColumns(f) ==
    LET len == Len(f.usage_kwh)
        solar == [k \in 1..len |-> SolarKwh(f.ac[k])]
        usage == f.usage_kwh
    IN  [datetime |-> f.datetime,
         hour |-> [k \in 1..len |-> Hour(f.datetime[k])],
         ac |-> f.ac,
         usage_kwh |-> usage,
         solar_kwh |-> solar,
         self_consumed_solar_only |->
             [k \in 1..len |-> SelfConsumedSolarOnly(solar[k], usage[k])],
         exported_solar_only |->
             [k \in 1..len |-> ExportedSolarOnly(solar[k], usage[k])],
         imported_solar_only |->
             [k \in 1..len |-> ImportedSolarOnly(solar[k], usage[k])]]

SolarOnlyColumns ==
    /\ pc = "solar_only"
    /\ combined' = WithSolarOnlyColumns(combined)
    /\ pc' = "battery_config"
    /\ UNCHANGED <<use_battery, battery_capacity, max_charge_rate,
                   max_discharge_rate, round_trip_eff, n, soc, i, solar_only,
                   battery, writes, run, first_run>>
    /\ UNCHANGED <<mergeVars, costVars, ioVars>>

----------------------------------------------------------------------------
(* Step 6, lines 77-89: the battery configuration.                         *)

\* str.strip().lower() on the answers of AnswerVals.
StripLower(s) ==
    CASE s = " Y " -> "y"
      [] OTHER -> s

\* lines 77-83: the user asks for a battery and types its four parameters.
BatteryPromptYes ==
    /\ pc = "battery_config"
    /\ \E answer \in AnswerVals, cap \in CapacityVals, cr \in ChargeRateVals,
          dr \in DischargeRateVals, pct \in EffPctVals :
         /\ StripLower(answer) = "y"
         /\ use_battery' = TRUE
         /\ battery_capacity' = R(cap)
         /\ max_charge_rate' = R(cr)
         /\ max_discharge_rate' = R(dr)
         /\ round_trip_eff' = RDivInt(R(pct), 100)
    /\ pc' = "init_columns"
    /\ UNCHANGED <<combined, n, soc, i, solar_only, battery, writes, run,
                   first_run>>
    /\ UNCHANGED <<mergeVars, costVars, ioVars>>

\* lines 77, 84-89: any other answer; the parameters get their defaults.
BatteryPromptNo ==
    /\ pc = "battery_config"
    /\ \E answer \in AnswerVals :
         /\ StripLower(answer) # "y"
         /\ use_battery' = FALSE
    /\ battery_capacity' = R(0)
    /\ max_charge_rate' = R(0)
    /\ max_discharge_rate' = R(0)
    /\ round_trip_eff' = R(1)
    /\ pc' = "init_columns"
    /\ UNCHANGED <<combined, n, soc, i, solar_only, battery, writes, run,
                   first_run>>
    /\ UNCHANGED <<mergeVars, costVars, ioVars>>

----------------------------------------------------------------------------
(* Step 7, lines 93-102: the battery columns and the state of charge.      *)

SocAtStart_Stale(s) == IF s = None THEN R(0) ELSE s

\* line 102: the state of charge the loop starts from, whatever s held before.
SocAtStart(s) == R(0)

InitColumns ==
    /\ pc = "init_columns"
    /\ n' = Len(combined.usage_kwh)
    /\ LET zeros == [k \in 1..Len(combined.usage_kwh) |-> R(0)]
       IN  combined' =
             [datetime |-> combined.datetime,
              hour |-> combined.hour,
              ac |-> combined.ac,
              usage_kwh |-> combined.usage_kwh,
              solar_kwh |-> combined.solar_kwh,
              self_consumed_solar_only |-> combined.self_consumed_solar_only,
              exported_solar_only |-> combined.exported_solar_only,
              imported_solar_only |-> combined.imported_solar_only,
              battery_soc |-> zeros,
              battery_charge |-> zeros,
              battery_discharge |-> zeros,
              self_consumed |-> zeros,
              exported |-> zeros,
              imported |-> zeros]
    /\ soc' = SocAtStart(soc)
    /\ i' = 0
    /\ writes' = <<>>
    /\ pc' = IF Len(combined.usage_kwh) = 0 THEN "totals" ELSE "loop"
    /\ UNCHANGED <<use_battery, battery_capacity, max_charge_rate,
                   max_discharge_rate, round_trip_eff, solar_only, battery,
                   run, first_run>>
    /\ UNCHANGED <<mergeVars, costVars, ioVars>>

----------------------------------------------------------------------------
(* Step 7, lines 103-150: one iteration of the dispatch loop.              *)

DirectSelfConsumed_Nothing(solar, usage) == R(0)

\* line 110
DirectSelfConsumed(solar, usage) == RMin(solar, usage)

ChargePossible_RateOnly(cr, cap, s) == cr

ChargePossible_Swapped(cr, cap, s) == RMin(cr, RSub(s, cap))

\* line 121
ChargePossible(cr, cap, s) == RMin(cr, RSub(cap, s))

\* line 122
ChargeEnergy(remaining_solar, charge_possible) ==
    RMin(remaining_solar, charge_possible)

SocAfterCharge_NoLoss(s, charge_energy, eff) == RAdd(s, charge_energy)

\* line 123
SocAfterCharge(s, charge_energy, eff) == RAdd(s, RMul(charge_energy, eff))

DischargePossible_RateOnly(dr, s) == dr

\* line 134
DischargePossible(dr, s) == RMin(dr, s)

\* line 135
DischargeEnergy(remaining_usage, discharge_possible) ==
    RMin(remaining_usage, discharge_possible)

SocAfterDischarge_Twice(s, discharge_energy) ==
    RSub(RSub(s, discharge_energy), discharge_energy)

\* line 136
SocAfterDischarge(s, discharge_energy) == RSub(s, discharge_energy)

Exported_BeforeCharge(remaining_solar, charge_energy) ==
    IF RPos(remaining_solar) THEN remaining_solar ELSE R(0)

Exported_PlusCharge(remaining_solar, charge_energy) ==
    LET left == RAdd(remaining_solar, charge_energy)
    IN  IF RPos(left) THEN left ELSE R(0)

\* lines 116, 125, 128-129: what is left of the solar after the charge, if any.
Exported(remaining_solar, charge_energy) ==
    LET left == RSub(remaining_solar, charge_energy)
    IN  IF RPos(left) THEN left ELSE R(0)

\* lines 115, 138, 141-142: what is left of the usage after the discharge, if any.
Imported(remaining_usage, discharge_energy) ==
    LET left == RSub(remaining_usage, discharge_energy)
    IN  IF RPos(left) THEN left ELSE R(0)

\* lines 105-150 as a function of the row and of the state of charge s that
\* the previous iteration left: the values recorded at the row and the new soc.
Dispatch(usage, solar, s, ub, cap, cr, dr, eff) ==
    LET self_consumed == DirectSelfConsumed(solar, usage)
        remaining_solar == RSub(solar, self_consumed)
        remaining_usage == RSub(usage, self_consumed)
        charging == ub /\ RPos(remaining_solar)
        charge_energy ==
            IF charging
            THEN ChargeEnergy(remaining_solar, ChargePossible(cr, cap, s))
            ELSE R(0)
        soc_charged ==
            IF charging THEN SocAfterCharge(s, charge_energy, eff) ELSE s
        discharging == ub /\ RPos(remaining_usage)
        discharge_energy ==
            IF discharging
            THEN DischargeEnergy(remaining_usage,
                                 DischargePossible(dr, soc_charged))
            ELSE R(0)
        soc_discharged ==
            IF discharging
            THEN SocAfterDischarge(soc_charged, discharge_energy)
            ELSE soc_charged
    IN  [battery_soc |-> soc_discharged,
         battery_charge |-> charge_energy,
         battery_discharge |-> discharge_energy,
         self_consumed |-> RAdd(self_consumed, discharge_energy),
         exported |-> Exported(remaining_solar, charge_energy),
         imported |-> Imported(remaining_usage, discharge_energy)]

\* combined.at[idx, ...]: the position of the 0-based label idx in a column.
RowAt(idx) == idx + 1

NextIndex_Skip(idx) == idx + 2

\* line 103: range(n) hands out the indices one by one.
NextIndex(idx) == idx + 1

LoopStep ==
    /\ pc = "loop"
    /\ i < n
    /\ LET row == RowAt(i)
           out == Dispatch(combined.usage_kwh[row], combined.solar_kwh[row],
                           soc, use_battery, battery_capacity,
                           max_charge_rate, max_discharge_rate,
                           round_trip_eff)
       IN  /\ soc' = out.battery_soc
           /\ combined' =
                [combined EXCEPT
                    !.battery_soc[row] = out.battery_soc,
                    !.battery_charge[row] = out.battery_charge,
                    !.battery_discharge[row] = out.battery_discharge,
                    !.self_consumed[row] = out.self_consumed,
                    !.exported[row] = out.exported,
                    !.imported[row] = out.imported]
           /\ writes' = Append(writes, i)
    /\ i' = NextIndex(i)
    /\ pc' = IF NextIndex(i) < n THEN "loop" ELSE "totals"
    /\ UNCHANGED <<use_battery, battery_capacity, max_charge_rate,
                   max_discharge_rate, round_trip_eff, n, solar_only, battery,
                   run, first_run>>
    /\ UNCHANGED <<mergeVars, costVars, ioVars>>

----------------------------------------------------------------------------
(* Steps 9 and 10, lines 168-173 and 180-186: the totals of both scenarios. *)

ScenarioTotals_BatteryColumns ==
    /\ pc = "totals"
    /\ solar_only' =
         [total_self_consumed |-> RSum(combined.self_consumed),
          total_exported |-> RSum(combined.exported),
          total_imported |-> RSum(combined.imported),
          total_usage |-> RSum(combined.usage_kwh),
          total_solar |-> RSum(combined.solar_kwh)]
    /\ battery' =
         [total_self_consumed |-> RSum(combined.self_consumed),
          total_exported |-> RSum(combined.exported),
          total_imported |-> RSum(combined.imported),
          total_usage |-> RSum(combined.usage_kwh),
          total_solar |-> RSum(combined.solar_kwh),
          total_battery_charge |-> RSum(combined.battery_charge),
          total_battery_discharge |-> RSum(combined.battery_discharge)]
    /\ pc' = "done"
    /\ UNCHANGED <<combined, use_battery, battery_capacity, max_charge_rate,
                   max_discharge_rate, round_trip_eff, n, soc, i, writes, run,
                   first_run>>
    /\ UNCHANGED <<mergeVars, costVars, ioVars>>

ScenarioTotals ==
    /\ pc = "totals"
    /\ solar_only' =
         [total_self_consumed |-> RSum(combined.self_consumed_solar_only),
          total_exported |-> RSum(combined.exported_solar_only),
          total_imported |-> RSum(combined.imported_solar_only),
          total_usage |-> RSum(combined.usage_kwh),
          total_solar |-> RSum(combined.solar_kwh)]
    /\ battery' =
         [total_self_consumed |-> RSum(combined.self_consumed),
          total_exported |-> RSum(combined.exported),
          total_imported |-> RSum(combined.imported),
          total_usage |-> RSum(combined.usage_kwh),
          total_solar |-> RSum(combined.solar_kwh),
          total_battery_charge |-> RSum(combined.battery_charge),
          total_battery_discharge |-> RSum(combined.battery_discharge)]
    /\ pc' = "done"
    /\ UNCHANGED <<combined, use_battery, battery_capacity, max_charge_rate,
                   max_discharge_rate, round_trip_eff, n, soc, i, writes, run,
                   first_run>>
    /\ UNCHANGED <<mergeVars, costVars, ioVars>>

----------------------------------------------------------------------------
(* Step 8, lines 154-165: the tariff.                                      *)

\* line 154, $ per day
supply_charge_per_day == Rat(11322, 10000)

\* line 155, $ per kWh imported
energy_rate == Rat(315823, 1000000)

\* line 156
peak_start == 15

\* line 157
peak_end == 20

IsPeak_Exclusive(hour) == peak_start <= hour /\ hour < peak_end

\* line 160: Series.between(peak_start, peak_end, inclusive="both")
IsPeak(hour) == peak_start <= hour /\ hour <= peak_end

\* line 161: np.where(is_peak, 0.10, 0.02), $ per kWh exported
FeedinRate(peak) == IF peak THEN Rat(10, 100) ELSE Rat(2, 100)

TotalDays_Span(datetime) ==
    IF datetime = <<>> THEN 0
    ELSE Date(datetime[Len(datetime)]) - Date(datetime[1]) + 1

\* line 164: Series.dt.date.nunique()
TotalDays(datetime) ==
    Cardinality({Date(datetime[k]) : k \in 1..Len(datetime)})

\* line 165
SupplyChargeTotal(days) == RMul(supply_charge_per_day, R(days))

----------------------------------------------------------------------------
(* Steps 9 and 10, lines 174-177 and 187-190: the money of a scenario.     *)

\* lines 174 / 187: (exported * feedin_rate).sum()
ExportEarnings(exported, rate) ==
    RSum([k \in 1..Len(exported) |-> RMul(exported[k], rate[k])])

CostWithoutSolar_NoSupply(total_usage, supply) ==
    RMul(total_usage, energy_rate)

\* lines 175 / 188
CostWithoutSolar(total_usage, supply) ==
    RAdd(RMul(total_usage, energy_rate), supply)

CostWithSolar_NoSupply(total_imported, earnings, supply) ==
    RSub(RMul(total_imported, energy_rate), earnings)

\* lines 176 / 189
CostWithSolar(total_imported, earnings, supply) ==
    RAdd(RSub(RMul(total_imported, energy_rate), earnings), supply)

TotalSavings_Swapped(without, with) == RSub(with, without)

\* lines 177 / 190
TotalSavings(without, with) == RSub(without, with)

\* lines 174-177 / 187-190 for the totals of one scenario.
Money(totals, exported, rate, supply) ==
    LET earnings == ExportEarnings(exported, rate)
        without == CostWithoutSolar(totals.total_usage, supply)
        with == CostWithSolar(totals.total_imported, earnings, supply)
    IN  [export_earnings |-> earnings,
         cost_without_solar |-> without,
         cost_with_solar |-> with,
         total_savings |-> TotalSavings(without, with)]

\* Step 8 and the money lines of Steps 9 and 10.  They read the frame and the
\* totals only, so they are taken together after the totals.
Costs ==
    /\ pc = "done"
    /\ LET peak == [k \in 1..Len(combined.hour) |-> IsPeak(combined.hour[k])]
           rate == [k \in 1..Len(peak) |-> FeedinRate(peak[k])]
           days == TotalDays(combined.datetime)
           supply == SupplyChargeTotal(days)
           so == Money(solar_only, combined.exported_solar_only, rate, supply)
           ba == Money(battery, combined.exported, rate, supply)
       IN  /\ is_peak' = peak
           /\ feedin_rate' = rate
           /\ total_days' = days
           /\ supply_charge_total' = supply
           /\ solar_only' =
                [total_self_consumed |-> solar_only.total_self_consumed,
                 total_exported |-> solar_only.total_exported,
                 total_imported |-> solar_only.total_imported,
                 total_usage |-> solar_only.total_usage,
                 total_solar |-> solar_only.total_solar,
                 export_earnings |-> so.export_earnings,
                 cost_without_solar |-> so.cost_without_solar,
                 cost_with_solar |-> so.cost_with_solar,
                 total_savings |-> so.total_savings]
           /\ battery' =
                [total_self_consumed |-> battery.total_self_consumed,
                 total_exported |-> battery.total_exported,
                 total_imported |-> battery.total_imported,
                 total_usage |-> battery.total_usage,
                 total_solar |-> battery.total_solar,
                 total_battery_charge |-> battery.total_battery_charge,
                 total_battery_discharge |-> battery.total_battery_discharge,
                 export_earnings |-> ba.export_earnings,
                 cost_without_solar |-> ba.cost_without_solar,
                 cost_with_solar |-> ba.cost_with_solar,
                 total_savings |-> ba.total_savings]
    /\ pc' = "payback"
    /\ UNCHANGED <<combined, use_battery, battery_capacity, max_charge_rate,
                   max_discharge_rate, round_trip_eff, n, soc, i, writes, run,
                   first_run, system_cost, payback_years>>
    /\ UNCHANGED <<mergeVars, ioVars>>

----------------------------------------------------------------------------
(* Lines 193-194: the system cost and the payback period.                  *)

PaybackYears_Zero(cost, savings) ==
    IF RPos(savings) THEN RDiv(cost, savings) ELSE R(0)

\* line 194
PaybackYears(cost, savings) ==
    IF RPos(savings) THEN RDiv(cost, savings) ELSE Inf

Payback ==
    /\ pc = "payback"
    /\ \E cost \in SystemCostVals :
         /\ system_cost' = R(cost)
         /\ payback_years' = PaybackYears(R(cost), battery.total_savings)
    /\ pc' = "save"
    /\ UNCHANGED <<combined, use_battery, battery_capacity, max_charge_rate,
                   max_discharge_rate, round_trip_eff, n, soc, i, solar_only,
                   battery, writes, run, first_run, is_peak, feedin_rate,
                   total_days, supply_charge_total>>
    /\ UNCHANGED <<mergeVars, ioVars>>

----------------------------------------------------------------------------

(* A second execution of Step 7 in the same interpreter (the module run     *)
(* again, as importlib.reload does): the names keep the values the first   *)
(* execution left, the dataset and the configuration are the same.         *)

Rerun ==
    /\ pc = "done"
    /\ run = 1
    /\ run' = 2
    /\ first_run' = combined
    /\ pc' = "init_columns"
    /\ UNCHANGED <<combined, use_battery, battery_capacity, max_charge_rate,
                   max_discharge_rate, round_trip_eff, n, soc, i, solar_only,
                   battery, writes>>
    /\ UNCHANGED <<mergeVars, costVars, ioVars>>

----------------------------------------------------------------------------
(* The process around the simulation: the files it reads and writes and    *)
(* the lines it reads from sys.stdin, for "python solar_calculator.py" and *)
(* for "python run_test.py", which imports solar_calculator (the module    *)
(* body runs at the import, line 17 of run_test.py) and then calls main(). *)
(* Steps 4 to 11, which the actions above model in detail, are one step    *)
(* here: they read the terminal and write no file.                         *)

\* The names that Steps 4 to 11 assign.
simVars == <<combined, use_battery, battery_capacity, max_charge_rate,
             max_discharge_rate, round_trip_eff, n, soc, i, solar_only,
             battery, writes, run, first_run>>

\* line 216
ResultsFile == "solar_results/solar_analysis_results.csv"

\* line 240
SummaryFile == "solar_results/solar_summary.json"

\* generate_solar_report.py lines 227-229
ReportFile == "solar_reports/solar_system_report.docx"

\* generate_solar_report.py lines 163, 182, 196 and 341: the files that the
\* report script writes, in the order in which it writes them.
ReportWrites ==
    <<"solar_report_plots/hourly_flows.png",
      "solar_report_plots/monthly_totals.png",
      "solar_report_plots/energy_breakdown.png",
      ReportFile>>

\* Solar_data.py lines 200-202: the file that save_api_response() writes.  Its
\* name carries the time of the request, so it is a new file at every run.
ApiResponseFile == "api_responses/pvwatts_response_<timestamp>.txt"

\* lines 317-325
files_to_check ==
    {"solar_results/solar_analysis_results.csv",
     "solar_results/solar_summary.json",
     "solar_results/solar_pvwatts_data.csv",
     "reports/solar_analysis_report.docx",
     "reports/plot1.png", "reports/plot2.png", "reports/plot3.png"}

\* run_test.py lines 37-46: the lines of the StringIO, each with the comment
\* that labels it.
test_inputs ==
    <<[text |-> "6.6", label |-> "System size (kW)"],
      [text |-> "4936", label |-> "System cost ($)"],
      [text |-> "31", label |-> "Tilt angle (degrees)"],
      [text |-> "6", label |-> "Azimuth angle (degrees)"],
      [text |-> "n", label |-> "Include battery? (y/n)"],
      [text |-> "1.2", label |-> "DC to AC ratio"],
      [text |-> "0.4", label |-> "Ground coverage ratio"],
      [text |-> "19.3", label |-> "DC capacity factor"]>>

\* A line that the user types at the terminal.
Typed(text) == [text |-> text, label |-> "terminal"]

\* input(): the lines that the next read of sys.stdin can return.  None when
\* a StringIO is exhausted (input() raises EOFError).
Offered(st) ==
    IF st.tty THEN {Typed(t) : t \in TerminalTexts}
    ELSE IF st.lines = <<>> THEN {}
    ELSE {Head(st.lines)}

\* sys.stdin after one line has been read from it.
AfterRead(st) == IF st.tty THEN st ELSE [st EXCEPT !.lines = Tail(@)]

\* str.lower() on the texts that are read.
Lower(text) ==
    CASE text = "Y" -> "y"
      [] OTHER -> text

\* float(text) succeeds.
IsFloat(text) ==
    text \in {"6.6", "4936", "31", "6", "1.2", "0.4", "19.3", "1", "0.01",
              "0", "5", "10", "14", "15.0", "95", "100", "360"}

\* float(text)
FloatOf(text) ==
    CASE text = "6.6" -> Rat(66, 10)
      [] text = "4936" -> R(4936)
      [] text = "31" -> R(31)
      [] text = "6" -> R(6)
      [] text = "1.2" -> Rat(12, 10)
      [] text = "0.4" -> Rat(4, 10)
      [] text = "19.3" -> Rat(193, 10)
      [] text = "1" -> R(1)
      [] text = "0.01" -> Rat(1, 100)
      [] text = "0" -> R(0)
      [] text = "5" -> R(5)
      [] text = "10" -> R(10)
      [] text = "14" -> R(14)
      [] text = "15.0" -> R(15)
      [] text = "95" -> R(95)
      [] text = "100" -> R(100)
      [] text = "360" -> R(360)

\* int(text) succeeds.
IsInt(text) == text \in {"0", "1", "5"}

\* int(text)
IntOf(text) ==
    CASE text = "0" -> 0
      [] text = "1" -> 1
      [] text = "5" -> 5

\* The history records.
InputEvent(prompt, line) ==
    [op |-> "input", prompt |-> prompt, text |-> line.text,
     label |-> line.label]

WriteEvent(file) == [op |-> "write", file |-> file, existed |-> file \in files]

\* lines 32-35: Solar_data.py as a subprocess.  It ends with an error before
\* the provider has answered, or saves the provider's answer (Solar_data.py
\* line 269) and then ends with sys.exit(1) (line 364), or saves the answer
\* and the provider's series (lines 351-354); the script does not look at
\* the return code.
RunSolarData ==
    /\ pc = "fetch"
    /\ \E outcome \in {"failed", "answered", "saved"} :
         CASE outcome = "failed" -> UNCHANGED <<files, log>>
           [] outcome = "answered" ->
                /\ files' = files \cup {ApiResponseFile}
                /\ log' = Append(log, WriteEvent(ApiResponseFile))
           [] outcome = "saved" ->
                /\ files' = files \cup {ApiResponseFile, SolarFile}
                /\ log' = log \o <<WriteEvent(ApiResponseFile),
                                    WriteEvent(SolarFile)>>
    /\ pc' = "load"
    /\ UNCHANGED <<simVars, mergeVars, costVars, entry, stdin, params>>

\* lines 38-52: both files must exist.
LoadData ==
    /\ pc = "load"
    /\ pc' = IF SolarFile \in files /\ MeterFile \in files
             THEN "simulate"
             ELSE "FileNotFoundError"
    /\ UNCHANGED <<simVars, mergeVars, costVars, ioVars>>

\* lines 54-212: Steps 4 to 11.  They read the battery prompt of line 77, the
\* four prompts of lines 80-83 after a "y", and the system cost of line 193.
Simulate ==
    /\ pc = "simulate"
    /\ \E answer \in AnswerVals :
         log' = log
                \o <<InputEvent("Would you like to include a battery? (y/n): ",
                                 Typed(answer))>>
                \o (IF StripLower(answer) = "y"
                    THEN <<InputEvent("Battery capacity (kWh): ", Typed("1")),
                           InputEvent("Max charge rate (kW): ", Typed("1")),
                           InputEvent("Max discharge rate (kW): ", Typed("1")),
                           InputEvent("Round-trip efficiency (%, e.g. 90): ",
                                      Typed("1"))>>
                    ELSE <<>>)
                \o <<InputEvent("Total system cost ($, e.g. 8000): ",
                                 Typed("1"))>>
    /\ pc' = "save"
    /\ UNCHANGED <<simVars, mergeVars, costVars, entry, files, stdin, params>>

\* lines 214-243: Step 12.
SaveResults ==
    /\ pc = "save"
    /\ files' = files \cup {ResultsFile, SummaryFile}
    /\ log' = log \o <<WriteEvent(ResultsFile), WriteEvent(SummaryFile)>>
    /\ pc' = "report_prompt"
    /\ UNCHANGED <<simVars, mergeVars, costVars, entry, stdin, params>>

\* The process after the module body: main() when the script was started
\* (lines 385-386), the rest of run_test.py when it was imported.
AfterModuleBody == IF entry = "script" THEN "main" ELSE "run_test"

\* lines 246-249: Step 13, generate_solar_report.py as a subprocess after a
\* "y".  The subprocess writes its files one after the other and may end
\* with an error before any of them; the script does not look at its return
\* code and goes on.
ReportPrompt ==
    /\ pc = "report_prompt"
    /\ \E answer \in AnswerVals :
         LET asked == InputEvent("Would you like to generate a Word report? (y/n): ",
                                 Typed(answer))
         IN  IF StripLower(answer) = "y"
             THEN \E written \in 0..Len(ReportWrites) :
                    /\ files' = files \cup {ReportWrites[k] : k \in 1..written}
                    /\ log' = log \o <<asked>>
                                  \o [k \in 1..written |->
                                        WriteEvent(ReportWrites[k])]
             ELSE /\ log' = Append(log, asked)
                  /\ UNCHANGED files
    /\ pc' = AfterModuleBody
    /\ UNCHANGED <<simVars, mergeVars, costVars, entry, stdin, params>>

\* run_test.py lines 76-92 and 32-49: sys.stdin becomes the StringIO.
RedirectStdin ==
    /\ pc = "run_test"
    /\ stdin' = [tty |-> FALSE, lines |-> test_inputs]
    /\ pc' = "main"
    /\ UNCHANGED <<simVars, mergeVars, costVars, entry, files, params, log>>

\* The ways in which main() ends: it returns after a "n" at the confirmation
\* (line 347), or an exception leaves it.
MainEnded == pc \in {"cancelled", "EOFError", "ValueError", "NameError"}

\* run_test.py lines 54-56 and 94: the finally clause puts the terminal back
\* as sys.stdin, however main() has ended; after a return of main() the
\* test run completes, an exception goes on to end the process.
RestoreStdin ==
    /\ entry = "run_test"
    /\ MainEnded
    /\ stdin # Tty
    /\ stdin' = Tty
    /\ pc' = IF pc = "cancelled" THEN "completed" ELSE pc
    /\ UNCHANGED <<simVars, mergeVars, costVars, entry, files, params, log>>

\* lines 345-348 and 310-339: main() starts with check_existing_files().
CheckExistingFiles ==
    /\ pc = "main"
    /\ IF files_to_check \cap files = {}
       THEN /\ pc' = "prompts"
            /\ UNCHANGED <<stdin, log>>
       ELSE IF Offered(stdin) = {}
       THEN /\ pc' = "EOFError"
            /\ UNCHANGED <<stdin, log>>
       ELSE \E line \in Offered(stdin) :
              /\ stdin' = AfterRead(stdin)
              /\ log' = Append(log, InputEvent("Do you want to proceed? (y/n): ",
                                                line))
              /\ pc' = IF Lower(line.text) = "y" THEN "prompts"
                       ELSE "cancelled"
    /\ params' = <<>>
    /\ UNCHANGED <<simVars, mergeVars, costVars, entry, files>>

\* lines 352-360: the prompts of the dict literal, in the order in which
\* Python evaluates them.
main_prompts ==
    <<[key |-> "system_capacity", prompt |-> "Enter system size (kW): ",
       float |-> TRUE],
      [key |-> "system_cost", prompt |-> "Enter system cost ($): ",
       float |-> TRUE],
      [key |-> "location", prompt |-> "Enter suburb: ", float |-> FALSE],
      [key |-> "tilt", prompt |-> "Enter tilt angle (degrees): ",
       float |-> TRUE],
      [key |-> "azimuth", prompt |-> "Enter azimuth angle (degrees): ",
       float |-> TRUE],
      [key |-> "dc_ac_ratio", prompt |-> "Enter DC to AC ratio: ",
       float |-> TRUE],
      [key |-> "ground_coverage_ratio",
       prompt |-> "Enter ground coverage ratio: ", float |-> TRUE],
      [key |-> "dc_capacity_factor",
       prompt |-> "Enter DC capacity factor (%): ", float |-> TRUE],
      [key |-> "include_battery", prompt |-> "Include battery? (y/n): ",
       float |-> FALSE]>>

\* lines 365-368
battery_prompts ==
    <<[key |-> "battery_capacity", prompt |-> "Enter battery capacity (kWh): ",
       float |-> TRUE],
      [key |-> "max_charge_rate", prompt |-> "Enter max charge rate (kW): ",
       float |-> TRUE],
      [key |-> "max_discharge_rate",
       prompt |-> "Enter max discharge rate (kW): ", float |-> TRUE],
      [key |-> "round_trip_eff",
       prompt |-> "Enter round trip efficiency (%): ", float |-> TRUE]>>

\* The value that main() stores for a prompt and the text read at it.
ParamValue(q, text) ==
    IF q.key = "include_battery" THEN Lower(text) = "y"
    ELSE IF q.key = "round_trip_eff" THEN RDivInt(FloatOf(text), 100)
    ELSE IF q.float THEN FloatOf(text)
    ELSE text

\* The prompts that main() goes through, given what it has collected.
PromptsFor(collected) ==
    IF Len(collected) >= Len(main_prompts)
       /\ collected[Len(main_prompts)].value = TRUE
    THEN main_prompts \o battery_prompts
    ELSE main_prompts

\* lines 351-369: the next prompt of main().
MainPrompt ==
    /\ pc = "prompts"
    /\ Len(params) < Len(PromptsFor(params))
    /\ LET q == PromptsFor(params)[Len(params) + 1]
       IN  IF Offered(stdin) = {}
           THEN /\ pc' = "EOFError"
                /\ UNCHANGED <<stdin, params, log>>
           ELSE \E line \in Offered(stdin) :
                  /\ stdin' = AfterRead(stdin)
                  /\ log' = Append(log, InputEvent(q.prompt, line))
                  /\ IF q.float /\ ~IsFloat(line.text)
                     THEN /\ pc' = "ValueError"
                          /\ UNCHANGED params
                     ELSE /\ params' =
                               Append(params,
                                      [key |-> q.key,
                                       value |-> ParamValue(q, line.text)])
                          /\ pc' = "prompts"
    /\ UNCHANGED <<simVars, mergeVars, costVars, entry, files>>

\* lines 371-375: the summary, then get_solar_data(params), a name that no
\* line of the module defines.
GetSolarData ==
    /\ pc = "prompts"
    /\ Len(params) = Len(PromptsFor(params))
    /\ pc' = "NameError"
    /\ UNCHANGED <<simVars, mergeVars, costVars, ioVars>>

\* The process starts: either entry, any of the files of an earlier run on
\* disk, the terminal as sys.stdin.
ProcessInit ==
    /\ pc = "fetch"
    /\ entry \in {"script", "run_test"}
    /\ files \in SUBSET {MeterFile, SolarFile, ResultsFile, SummaryFile,
                         ReportFile}
    /\ stdin = Tty
    /\ params = None
    /\ log = <<>>
    /\ combined = None
    /\ solar_data = None
    /\ meter_data = None
    /\ Unassigned
    /\ writes = <<>>
    /\ run = 1
    /\ first_run = None

NextProcess ==
    \/ RunSolarData
    \/ LoadData
    \/ Simulate
    \/ SaveResults
    \/ ReportPrompt
    \/ RedirectStdin
    \/ RestoreStdin
    \/ CheckExistingFiles
    \/ MainPrompt
    \/ GetSolarData

SpecProcess == ProcessInit /\ [][NextProcess]_vars

----------------------------------------------------------------------------
(* Solar_data.py, the subprocess of Step 2: the parameters it asks for and *)
(* the request it sends to the provider.                                   *)

\* Solar_data.py lines 127-164: the prompts of get_user_input() in their
\* order, how each answer is converted, the text that stands in for an empty
\* answer ("" where there is none), and the answers explored.
user_prompts ==
    <<[key |-> "system_capacity", prompt |-> "System size (kW): ",
       kind |-> "float", default |-> "", texts |-> {"6.6", "0.01", "n"}],
      [key |-> "losses",
       prompt |-> "System losses (%, between -5 and 99) [default 15.0%]: ",
       kind |-> "float", default |-> "15.0",
       texts |-> {"", "14", "10", "100"}],
      [key |-> "array_type", prompt |-> "Select array type (0-4): ",
       kind |-> "int", default |-> "", texts |-> {"0", "1", "5", "1.2"}],
      [key |-> "tilt", prompt |-> "Panel tilt angle (degrees, 0 to 90): ",
       kind |-> "float", default |-> "", texts |-> {"31", "95"}],
      [key |-> "azimuth",
       prompt |-> "Panel azimuth angle (degrees, 0 to 360): ",
       kind |-> "float", default |-> "", texts |-> {"6", "360"}],
      [key |-> "dc_ac_ratio", prompt |-> "DC to AC ratio (default 1.2): ",
       kind |-> "float", default |-> "1.2", texts |-> {"", "1.2"}],
      [key |-> "ground_coverage_ratio",
       prompt |-> "Ground coverage ratio (default 0.4): ",
       kind |-> "float", default |-> "0.4", texts |-> {"", "0.4"}],
      [key |-> "dc_capacity_factor",
       prompt |-> "DC capacity factor (%, default 19.3): ",
       kind |-> "float", default |-> "19.3", texts |-> {"", "100"}]>>

\* The text that is converted: the default for an empty answer.
AnswerText(q, text) == IF text = "" THEN q.default ELSE text

\* float(...) or int(...) of a prompt succeeds on the text.
Converts(q, text) ==
    IF q.kind = "int" THEN IsInt(AnswerText(q, text))
    ELSE IsFloat(AnswerText(q, text))

\* The value that get_user_input() keeps for the text.
Converted(q, text) ==
    IF q.kind = "int" THEN IntOf(AnswerText(q, text))
    ELSE FloatOf(AnswerText(q, text))

\* Solar_data.py line 128: the range that the loop of the first prompt
\* insists on.
CapacityInRange(c) == RLeq(Rat(5, 100), c) /\ RLeq(c, R(500000))

\* The value collected under a key.
Collected(seq, key) ==
    (CHOOSE e \in {seq[k] : k \in 1..Len(seq)} : e.key = key).value

\* Solar_data.py lines 135 and 167-177: the dict that get_user_input()
\* compiles of what it collected; module_type is the constant of line 135.
CompiledParams(seq) ==
    [system_capacity |-> Collected(seq, "system_capacity"),
     module_type |-> 0,
     losses |-> Collected(seq, "losses"),
     array_type |-> Collected(seq, "array_type"),
     tilt |-> Collected(seq, "tilt"),
     azimuth |-> Collected(seq, "azimuth"),
     dc_ac_ratio |-> Collected(seq, "dc_ac_ratio"),
     ground_coverage_ratio |-> Collected(seq, "ground_coverage_ratio"),
     dc_capacity_factor |-> Collected(seq, "dc_capacity_factor")]

\* Solar_data.py lines 69-102: validate_parameters(p) raises no ValueError.
validate_parameters(p) ==
    /\ RLeq(Rat(5, 100), p.system_capacity)
    /\ RLeq(p.system_capacity, R(500000))
    /\ p.module_type \in {0, 1, 2}
    /\ RLeq(R(-5), p.losses) /\ RLeq(p.losses, R(99))
    /\ p.array_type \in {0, 1, 2, 3, 4}
    /\ RLeq(R(0), p.tilt) /\ RLeq(p.tilt, R(90))
    /\ RLeq(R(0), p.azimuth) /\ RLt(p.azimuth, R(360))
    /\ RLeq(Rat(5, 10), p.dc_ac_ratio) /\ RLeq(p.dc_ac_ratio, R(2))
    /\ RLeq(Rat(1, 10), p.ground_coverage_ratio)
    /\ RLeq(p.ground_coverage_ratio, R(1))
    /\ RLeq(R(0), p.dc_capacity_factor)
    /\ RLeq(p.dc_capacity_factor, R(100))

\* Solar_data.py lines 44-45
PERTH_LATITUDE == Rat(-3203, 100)
PERTH_LONGITUDE == Rat(11598, 100)

\* Solar_data.py lines 243-255: request_params, without the API key.
RequestParams(p) ==
    [format |-> "json",
     system_capacity |-> p.system_capacity,
     module_type |-> 0,
     losses |-> R(14),
     array_type |-> 0,
     tilt |-> p.tilt,
     azimuth |-> p.azimuth,
     lat |-> PERTH_LATITUDE,
     lon |-> PERTH_LONGITUDE,
     timeframe |-> "hourly"]

\* The history record of a request to the provider.
RequestEvent(request) == [op |-> "request", params |-> request]

\* Solar_data.py lines 30-38: the API key of the environment, or a
\* RuntimeError before main() is reached.
LoadEnvironment ==
    /\ pc = "env"
    /\ \E key_set \in BOOLEAN :
         pc' = IF key_set THEN "get_user_input" ELSE "RuntimeError"
    /\ params' = <<>>
    /\ UNCHANGED <<simVars, mergeVars, costVars, entry, files, stdin, log>>

\* Solar_data.py lines 124-164: the next prompt of get_user_input().  The
\* first prompt is repeated until its answer is a number within its range
\* (lines 125-132); a conversion that fails at a later prompt raises a
\* ValueError, which main() reports before it exits with status 1 (lines
\* 362-364).
UserInputPrompt ==
    /\ pc = "get_user_input"
    /\ Len(params) < Len(user_prompts)
    /\ LET q == user_prompts[Len(params) + 1]
       IN  \E text \in q.texts :
             IF q.key = "system_capacity"
             THEN IF Converts(q, text) /\ CapacityInRange(Converted(q, text))
                  THEN /\ params' = Append(params,
                                           [key |-> q.key,
                                            value |-> Converted(q, text)])
                       /\ pc' = pc
                  ELSE UNCHANGED <<pc, params>>
             ELSE IF Converts(q, text)
             THEN /\ params' = Append(params,
                                      [key |-> q.key,
                                       value |-> Converted(q, text)])
                  /\ pc' = pc
             ELSE /\ pc' = "exit_1"
                  /\ UNCHANGED params
    /\ UNCHANGED <<simVars, mergeVars, costVars, entry, files, stdin, log>>

\* Solar_data.py lines 167-182: the dict is compiled and validated; a
\* ValueError ends main() with status 1.
CompileAndValidate ==
    /\ pc = "get_user_input"
    /\ Len(params) = Len(user_prompts)
    /\ params' = CompiledParams(params)
    /\ pc' = IF validate_parameters(CompiledParams(params))
             THEN "fetch_solar_data"
             ELSE "exit_1"
    /\ UNCHANGED <<simVars, mergeVars, costVars, entry, files, stdin, log>>

\* Solar_data.py lines 243-278 and 184-221: the request is built and sent.
\* The provider answers and save_api_response() writes the answer to its
\* file, or the request fails, or the write of the answer fails: either
\* failure becomes a RuntimeError, which ends main() with status 1.
FetchSolarData ==
    /\ pc = "fetch_solar_data"
    /\ LET sent == Append(log, RequestEvent(RequestParams(params)))
       IN  \E outcome \in {"failed", "answered"} :
             IF outcome = "answered"
             THEN /\ files' = files \cup {ApiResponseFile}
                  /\ log' = Append(sent, WriteEvent(ApiResponseFile))
                  /\ pc' = "save_to_csv"
             ELSE /\ log' = sent
                  /\ pc' = "exit_1"
                  /\ UNCHANGED files
    /\ UNCHANGED <<simVars, mergeVars, costVars, entry, stdin, params>>

\* Solar_data.py lines 350-354 and 298-330: the series is saved, or the
\* answer has no "ac" series and a RuntimeError ends main() with status 1.
SaveToCsv ==
    /\ pc = "save_to_csv"
    /\ \E has_ac \in BOOLEAN :
         IF has_ac
         THEN /\ files' = files \cup {SolarFile}
              /\ log' = Append(log, WriteEvent(SolarFile))
              /\ pc' = "exit_0"
         ELSE /\ pc' = "exit_1"
              /\ UNCHANGED <<files, log>>
    /\ UNCHANGED <<simVars, mergeVars, costVars, entry, stdin, params>>

\* python3 Solar_data.py starts, with or without the file of an earlier run.
FetchInit ==
    /\ pc = "env"
    /\ entry = "Solar_data"
    /\ files \in SUBSET {SolarFile, MeterFile}
    /\ stdin = Tty
    /\ params = None
    /\ log = <<>>
    /\ combined = None
    /\ solar_data = None
    /\ meter_data = None
    /\ Unassigned
    /\ writes = <<>>
    /\ run = 1
    /\ first_run = None

NextFetch ==
    \/ LoadEnvironment
    \/ UserInputPrompt
    \/ CompileAndValidate
    \/ FetchSolarData
    \/ SaveToCsv

SpecFetch == FetchInit /\ [][NextFetch]_vars

----------------------------------------------------------------------------

Next ==
    \/ SolarOnlyColumns
    \/ BatteryPromptYes
    \/ BatteryPromptNo
    \/ InitColumns
    \/ LoopStep
    \/ ScenarioTotals

Spec == Init /\ [][Next]_vars

NextRerun ==
    \/ Next
    \/ Rerun

SpecRerun == Init /\ [][NextRerun]_vars

----------------------------------------------------------------------------
(* Step 4 and Step 5, explored from the state that line 52 leaves: the     *)
(* provider's series is hourly from 2024-01-01 00:00, the meter's readings *)
(* are those of MeterVals in any order.                                    *)

MergeInit ==
    /\ pc = "merge"
    /\ \E len \in 0..MaxLen :
         \E acs \in [1..len -> AcVals] :
            solar_data = [datetime |-> DateRange(len),
                          ac |-> [k \in 1..len |-> R(acs[k])]]
    /\ \E len \in 0..MaxLen :
         \E rows \in [1..len -> MeterVals] :
            meter_data = [Date |-> [k \in 1..len |-> rows[k][1]],
                          Time |-> [k \in 1..len |-> rows[k][2]],
                          usage_billed |-> [k \in 1..len |-> R(rows[k][3])]]
    /\ combined = None
    /\ Unassigned
    /\ Interactive
    /\ writes = <<>>
    /\ run = 1
    /\ first_run = None

NextMerge ==
    \/ Merge
    \/ SolarOnlyColumns

SpecMerge == MergeInit /\ [][NextMerge]_vars

----------------------------------------------------------------------------
(* The script on datasets with missing values, from the state after the    *)
(* merge of line 60.                                                       *)

\* The aligned intervals of the datasets with missing values, as <<ac, usage>>
\* floats: an empty "Usage already billed" cell or an empty "ac" cell (a None
\* of the provider's response, Solar_data.py line 323) is read as NaN.
MissingVals ==
    {<<R(6000), NaN>>, <<R(0), NaN>>, <<NaN, R(4)>>, <<R(3000), R(5)>>,
     <<R(6000), R(1)>>}

MissingInit ==
    /\ pc = "solar_only"
    /\ \E len \in 0..MaxLen :
         \E rows \in [1..len -> MissingVals] :
            /\ solar_data = [datetime |-> DateRange(len),
                             ac |-> [k \in 1..len |-> rows[k][1]]]
            /\ meter_data = [datetime |-> DateRange(len),
                             usage_kwh |-> [k \in 1..len |-> rows[k][2]]]
    /\ combined = MergeInner(solar_data, meter_data)
    /\ Unassigned
    /\ Interactive
    /\ writes = <<>>
    /\ run = 1
    /\ first_run = None

SpecMissing == MissingInit /\ [][Next]_vars

----------------------------------------------------------------------------
(* The money of the script, explored from the state that Step 6 leaves:    *)
(* datasets with the timestamps of TariffTimes (both series have the same   *)
(* hours, in increasing order) and the configurations of TariffConfigs.     *)

TariffInit ==
    /\ pc = "init_columns"
    /\ \E len \in 0..MaxLen :
         \E ts \in [1..len -> TariffTimes], rows \in [1..len -> IntervalVals] :
            /\ \A j, k \in 1..len : j < k => ts[j] < ts[k]
            /\ solar_data = [datetime |-> ts,
                             ac |-> [k \in 1..len |-> R(rows[k][1])]]
            /\ meter_data = [datetime |-> ts,
                             usage_kwh |-> [k \in 1..len |-> R(rows[k][2])]]
    /\ combined = WithSolarOnlyColumns(MergeInner(solar_data, meter_data))
    /\ \E cfg \in TariffConfigs :
         /\ use_battery = cfg[1]
         /\ battery_capacity = R(cfg[2])
         /\ max_charge_rate = R(cfg[3])
         /\ max_discharge_rate = R(cfg[4])
         /\ round_trip_eff = RDivInt(R(cfg[5]), 100)
    /\ n = None
    /\ soc = None
    /\ i = None
    /\ solar_only = None
    /\ battery = None
    /\ is_peak = None
    /\ feedin_rate = None
    /\ total_days = None
    /\ supply_charge_total = None
    /\ system_cost = None
    /\ payback_years = None
    /\ Interactive
    /\ writes = <<>>
    /\ run = 1
    /\ first_run = None

NextTariff ==
    \/ InitColumns
    \/ LoopStep
    \/ ScenarioTotals
    \/ Costs
    \/ Payback

SpecTariff == TariffInit /\ [][NextTariff]_vars

----------------------------------------------------------------------------
(* Vocabulary of the properties.                                           *)

\* The battery configuration has been entered (Step 6 is over).
Configured ==
    pc \in {"init_columns", "loop", "totals", "done", "payback", "save"}

\* Step 7 has created the battery columns of the current execution.
InLoop == pc \in {"loop", "totals", "done", "payback", "save"}

\* The rows the dispatch loop has recorded so far.
Processed ==
    IF pc = "loop" THEN 1..i
    ELSE IF pc \in {"totals", "done", "payback", "save"} THEN 1..n
    ELSE {}

\* The domain of the battery parameters as the specification states it:
\* capacity >= 0, both rates >= 0 and the round-trip efficiency in (0, 1].
\* The script itself accepts any number at lines 80-83.
ValidConfig ==
    /\ RLeq(R(0), battery_capacity)
    /\ RLeq(R(0), max_charge_rate)
    /\ RLeq(R(0), max_discharge_rate)
    /\ RPos(round_trip_eff)
    /\ RLeq(round_trip_eff, R(1))

\* The state of charge that row k of frame f starts from: 0 at the first
\* row, and what the row before recorded otherwise.
SocBeforeIn(f, k) == IF k = 1 THEN R(0) ELSE f.battery_soc[k - 1]

SocBefore(k) == SocBeforeIn(combined, k)

\* min(solar, usage) of row k.
Direct(k) == RMin(combined.solar_kwh[k], combined.usage_kwh[k])

\* The six values the loop records at row k of frame f.
FlowsAt(f, k) ==
    [battery_soc |-> f.battery_soc[k],
     battery_charge |-> f.battery_charge[k],
     battery_discharge |-> f.battery_discharge[k],
     self_consumed |-> f.self_consumed[k],
     exported |-> f.exported[k],
     imported |-> f.imported[k]]

----------------------------------------------------------------------------
(* C1: energy conservation per interval.  For a valid battery              *)
(* configuration, every recorded interval satisfies                        *)
(*   min(solar, usage) + battery_charge + exported = solar_kwh,            *)
(*   min(solar, usage) + battery_discharge + imported = usage_kwh,         *)
(*   self_consumed = min(solar, usage) + battery_discharge.                *)
C1_Conservation ==
    (InLoop /\ ValidConfig) =>
        \A k \in Processed :
            /\ RAdd(RAdd(Direct(k), combined.battery_charge[k]),
                    combined.exported[k]) = combined.solar_kwh[k]
            /\ RAdd(RAdd(Direct(k), combined.battery_discharge[k]),
                    combined.imported[k]) = combined.usage_kwh[k]
            /\ combined.self_consumed[k] =
                   RAdd(Direct(k), combined.battery_discharge[k])

\* A valid run in which one interval charges and exports and another
\* discharges and imports.
C1_Witness ==
    /\ pc = "done"
    /\ use_battery
    /\ ValidConfig
    /\ \E k \in Processed :
          RPos(combined.battery_charge[k]) /\ RPos(combined.exported[k])
    /\ \E k \in Processed :
          RPos(combined.battery_discharge[k]) /\ RPos(combined.imported[k])

(* C2: battery bounds.  For a valid configuration the loop starts from a   *)
(* state of charge of 0 and, after any sequence of intervals, the state of *)
(* charge it carries and the one recorded at every interval lie in         *)
(* [0, battery_capacity].                                                  *)
C2_BatteryBounds ==
    (InLoop /\ ValidConfig) =>
        /\ RLeq(R(0), soc) /\ RLeq(soc, battery_capacity)
        /\ (pc = "loop" /\ i = 0) => soc = R(0)
        /\ \A k \in Processed :
              /\ RLeq(R(0), combined.battery_soc[k])
              /\ RLeq(combined.battery_soc[k], battery_capacity)

\* A valid run that fills the battery to its capacity while more solar was
\* on offer, and one interval later still holds charge.
C2_Witness ==
    /\ pc = "done"
    /\ use_battery
    /\ ValidConfig
    /\ n = 2
    /\ RPos(battery_capacity)
    /\ combined.battery_soc[1] = battery_capacity
    /\ RPos(combined.exported[1])
    /\ RPos(combined.battery_soc[2])

(* C3: the charge step.  With the battery enabled, an interval whose solar *)
(* exceeds its usage diverts                                               *)
(*   battery_charge = min(solar - usage, max_charge_rate, capacity - soc)  *)
(* from the solar, raises the state of charge by battery_charge times the  *)
(* round-trip efficiency, and exports only solar - usage - battery_charge. *)
(* Capacity 10, charge rate 10, efficiency 0.9, soc 0, usage 0, solar 10   *)
(* gives charge 10, soc 9, exported 0.                                     *)
C3_ChargeStep ==
    (InLoop /\ use_battery) =>
        \A k \in Processed :
            LET solar == combined.solar_kwh[k]
                usage == combined.usage_kwh[k]
                excess == RSub(solar, usage)
                charge == combined.battery_charge[k]
            IN  RLt(usage, solar) =>
                  /\ charge =
                       RMin(RMin(excess, max_charge_rate),
                            RSub(battery_capacity, SocBefore(k)))
                  /\ combined.battery_soc[k] =
                       RAdd(SocBefore(k), RMul(charge, round_trip_eff))
                  /\ combined.exported[k] = RSub(excess, charge)
                  /\ ( /\ battery_capacity = R(10)
                       /\ max_charge_rate = R(10)
                       /\ round_trip_eff = Rat(9, 10)
                       /\ SocBefore(k) = R(0)
                       /\ usage = R(0)
                       /\ solar = R(10) )
                     => /\ charge = R(10)
                        /\ combined.battery_soc[k] = R(9)
                        /\ combined.exported[k] = R(0)

\* The run of the example: the first interval has usage 0 and solar 10, the
\* battery has capacity 10, charge rate 10 and efficiency 0.9.
C3_Witness ==
    /\ InLoop
    /\ use_battery
    /\ 1 \in Processed
    /\ battery_capacity = R(10)
    /\ max_charge_rate = R(10)
    /\ round_trip_eff = Rat(9, 10)
    /\ combined.usage_kwh[1] = R(0)
    /\ combined.solar_kwh[1] = R(10)
    /\ combined.battery_charge[1] = R(10)
    /\ combined.battery_soc[1] = R(9)

(* C4: the discharge step with carry-forward.  With the battery enabled,   *)
(* an interval whose usage exceeds its solar discharges                    *)
(*   battery_discharge = min(usage - solar, max_discharge_rate, soc)       *)
(* where soc is the state of charge the previous interval left, lowers the *)
(* state of charge by exactly battery_discharge, and imports only          *)
(* usage - solar - battery_discharge.  Capacity 5, rates 5, efficiency 1,  *)
(* intervals (usage 1, solar 6) and (usage 4, solar 0) give charge 5 then  *)
(* discharge 4, soc 5 then 1, imported 0 in both.                          *)
C4_DischargeStep ==
    (InLoop /\ use_battery) =>
        /\ \A k \in Processed :
            LET solar == combined.solar_kwh[k]
                usage == combined.usage_kwh[k]
                deficit == RSub(usage, solar)
                discharge == combined.battery_discharge[k]
            IN  RLt(solar, usage) =>
                  /\ discharge =
                       RMin(RMin(deficit, max_discharge_rate), SocBefore(k))
                  /\ combined.battery_soc[k] = RSub(SocBefore(k), discharge)
                  /\ combined.imported[k] = RSub(deficit, discharge)
        /\ ( /\ 2 \in Processed
             /\ battery_capacity = R(5)
             /\ max_charge_rate = R(5)
             /\ max_discharge_rate = R(5)
             /\ round_trip_eff = R(1)
             /\ combined.usage_kwh[1] = R(1) /\ combined.solar_kwh[1] = R(6)
             /\ combined.usage_kwh[2] = R(4) /\ combined.solar_kwh[2] = R(0) )
           => /\ combined.battery_charge[1] = R(5)
              /\ combined.battery_soc[1] = R(5)
              /\ combined.imported[1] = R(0)
              /\ combined.battery_discharge[2] = R(4)
              /\ combined.battery_soc[2] = R(1)
              /\ combined.imported[2] = R(0)

\* The run of the example, after its second interval.
C4_Witness ==
    /\ InLoop
    /\ use_battery
    /\ 2 \in Processed
    /\ battery_capacity = R(5)
    /\ max_charge_rate = R(5)
    /\ max_discharge_rate = R(5)
    /\ round_trip_eff = R(1)
    /\ combined.usage_kwh[1] = R(1) /\ combined.solar_kwh[1] = R(6)
    /\ combined.usage_kwh[2] = R(4) /\ combined.solar_kwh[2] = R(0)
    /\ combined.battery_discharge[2] = R(4)
    /\ combined.battery_soc[2] = R(1)

(* C5: disabled-battery equivalence.  Without a battery every recorded     *)
(* interval has battery_charge = battery_discharge = battery_soc = 0,      *)
(* self_consumed = min(solar, usage), exported = max(solar - usage, 0) and *)
(* imported = max(usage - solar, 0), which are the values of the solar-    *)
(* only columns of that interval, and the totals of the battery scenario   *)
(* equal the totals of the solar-only scenario.                            *)
C5_DisabledEquivalence ==
    (InLoop /\ ~use_battery) =>
        /\ \A k \in Processed :
            LET solar == combined.solar_kwh[k]
                usage == combined.usage_kwh[k]
            IN  /\ combined.battery_charge[k] = R(0)
                /\ combined.battery_discharge[k] = R(0)
                /\ combined.battery_soc[k] = R(0)
                /\ combined.self_consumed[k] = RMin(solar, usage)
                /\ combined.exported[k] = RMax(RSub(solar, usage), R(0))
                /\ combined.imported[k] = RMax(RSub(usage, solar), R(0))
                /\ combined.self_consumed[k] =
                       combined.self_consumed_solar_only[k]
                /\ combined.exported[k] = combined.exported_solar_only[k]
                /\ combined.imported[k] = combined.imported_solar_only[k]
        /\ pc = "done" =>
            /\ battery.total_self_consumed = solar_only.total_self_consumed
            /\ battery.total_exported = solar_only.total_exported
            /\ battery.total_imported = solar_only.total_imported
            /\ battery.total_usage = solar_only.total_usage
            /\ battery.total_solar = solar_only.total_solar
            /\ battery.total_battery_charge = R(0)
            /\ battery.total_battery_discharge = R(0)

\* A finished run without a battery in which one interval exports and
\* another imports.
C5_Witness ==
    /\ pc = "done"
    /\ ~use_battery
    /\ RPos(battery.total_exported)
    /\ RPos(battery.total_imported)
    /\ RPos(battery.total_self_consumed)

(* C6: non-negativity.  For a valid configuration exported, imported,      *)
(* battery_charge and battery_discharge are >= 0 in every interval.        *)
C6_NonNegative ==
    (InLoop /\ ValidConfig) =>
        \A k \in 1..n :
            /\ RLeq(R(0), combined.exported[k])
            /\ RLeq(R(0), combined.imported[k])
            /\ RLeq(R(0), combined.battery_charge[k])
            /\ RLeq(R(0), combined.battery_discharge[k])

\* A valid run with a battery whose second interval finds the battery full
\* (nothing left to charge) although solar exceeds usage.
C6_Witness ==
    /\ pc = "done"
    /\ use_battery
    /\ ValidConfig
    /\ n = 2
    /\ RLt(combined.usage_kwh[2], combined.solar_kwh[2])
    /\ RPos(max_charge_rate)
    /\ SocBefore(2) = battery_capacity
    /\ combined.battery_charge[2] = R(0)

(* C7: determinism of the simulation.  A second execution of the dispatch  *)
(* loop over the same intervals with the same configuration starts from a  *)
(* state of charge of 0, whatever the first execution left behind, and     *)
(* records at every interval exactly what the first execution recorded     *)
(* there.                                                                  *)
C7_Deterministic ==
    (InLoop /\ run = 2) =>
        /\ (pc = "loop" /\ i = 0) => soc = R(0)
        /\ \A k \in Processed : FlowsAt(combined, k) = FlowsAt(first_run, k)

\* A second execution has finished although the first one had left the
\* battery charged and had recorded non-zero flows.
C7_Witness ==
    /\ pc = "done"
    /\ run = 2
    /\ use_battery
    /\ n = 2
    /\ RPos(first_run.battery_soc[n])
    /\ RPos(first_run.battery_discharge[n])
    /\ RPos(combined.battery_charge[1])

(* C8: the dispatch loop is length-preserving and ordered.  Over n aligned *)
(* intervals it takes exactly n steps, in input order 0, 1, ..., n-1; the  *)
(* step for interval k records, at position k of every flow column, the    *)
(* dispatch of interval k's own usage and solar from the state of charge   *)
(* left at position k-1; positions not reached yet still hold the initial  *)
(* 0; and no column ever changes its length.                               *)
C8_LengthPreservingOrdered ==
    InLoop =>
        /\ i \in 0..n
        /\ pc = "loop" => i < n
        /\ pc \in {"totals", "done"} => i = n
        /\ Len(writes) = i
        /\ \A k \in 1..Len(writes) : writes[k] = k - 1
        /\ \A c \in DOMAIN combined : Len(combined[c]) = n
        /\ \A k \in 1..n :
              FlowsAt(combined, k) =
                IF k <= i
                THEN Dispatch(combined.usage_kwh[k], combined.solar_kwh[k],
                              SocBefore(k), use_battery, battery_capacity,
                              max_charge_rate, max_discharge_rate,
                              round_trip_eff)
                ELSE [battery_soc |-> R(0), battery_charge |-> R(0),
                      battery_discharge |-> R(0), self_consumed |-> R(0),
                      exported |-> R(0), imported |-> R(0)]

\* The loop has ended over two intervals that both recorded a flow.
C8_Witness ==
    /\ pc = "totals"
    /\ n = 2
    /\ writes = <<0, 1>>
    /\ RPos(combined.self_consumed[1])
    /\ RPos(combined.imported[2])

(* C9: fail-fast configuration check.  When the capacity is negative, a    *)
(* rate is negative or the efficiency is outside (0, 1], the script stops  *)
(* with an error before the first interval is processed, so that no flow   *)
(* record is ever produced under such a configuration.                     *)
C9_FailFast ==
    (Configured /\ ~ValidConfig) => writes = <<>>

(* C10: zero-valued battery parameters.  With the battery enabled and an   *)
(* otherwise valid configuration, a capacity of 0 or a charge rate of 0    *)
(* lets the loop run to its end with no charge, no discharge and a state   *)
(* of charge of 0 in every interval, and a discharge rate of 0 lets it run *)
(* to its end with no discharge in any interval.                           *)
C10_ZeroParameters ==
    (InLoop /\ use_battery /\ ValidConfig) =>
        /\ (battery_capacity = R(0) \/ max_charge_rate = R(0)) =>
              /\ soc = R(0)
              /\ \A k \in Processed :
                    /\ combined.battery_charge[k] = R(0)
                    /\ combined.battery_discharge[k] = R(0)
                    /\ combined.battery_soc[k] = R(0)
        /\ max_discharge_rate = R(0) =>
              \A k \in Processed : combined.battery_discharge[k] = R(0)
        /\ ( /\ pc \in {"totals", "done"}
             /\ \/ battery_capacity = R(0)
                \/ max_charge_rate = R(0)
                \/ max_discharge_rate = R(0) )
           => Len(writes) = n

\* A finished run with capacity 0 and positive rates, over an interval with
\* excess solar followed by one with excess usage.
C10_Witness ==
    /\ pc = "done"
    /\ use_battery
    /\ ValidConfig
    /\ battery_capacity = R(0)
    /\ RPos(max_charge_rate)
    /\ RPos(max_discharge_rate)
    /\ n = 2
    /\ RPos(combined.exported[1])
    /\ RPos(combined.imported[2])

----------------------------------------------------------------------------
(* Vocabulary of the money properties.                                     *)

\* Both scenarios have their costs (Steps 8 to 10 are over).
Costed == pc \in {"payback", "save"}

\* The sum of f[k] * g[k] over the rows.
SumProduct(f, g) == RSum([k \in 1..Len(f) |-> RMul(f[k], g[k])])

\* The sum of f[k] over the rows k of the set rows.
SumOver(f, rows) ==
    RSum([k \in 1..Len(f) |-> IF k \in rows THEN f[k] ELSE R(0)])

\* What the imports of a scenario cost less what its exports earn, interval
\* by interval.
NetEnergyCost(imported, exported) ==
    RSum([k \in 1..Len(imported) |->
             RSub(RMul(imported[k], energy_rate),
                  RMul(exported[k], feedin_rate[k]))])

\* The usage at the import price, interval by interval.
UsageCost == RSum([k \in 1..n |-> RMul(combined.usage_kwh[k], energy_rate)])

(* C11: cost aggregation.  In each scenario the cost without solar is the  *)
(* usage at the import price plus the supply charge, the cost with solar   *)
(* is the imports at the import price less the export earnings plus the    *)
(* supply charge, and the savings are the first less the second; the       *)
(* solar-only scenario reads the solar-only columns and the battery        *)
(* scenario the columns of the dispatch loop.                              *)
C11_CostAggregation ==
    Costed =>
        /\ solar_only.cost_without_solar =
               RAdd(UsageCost, supply_charge_total)
        /\ solar_only.cost_with_solar =
               RAdd(NetEnergyCost(combined.imported_solar_only,
                                  combined.exported_solar_only),
                    supply_charge_total)
        /\ solar_only.total_savings =
               RSub(solar_only.cost_without_solar, solar_only.cost_with_solar)
        /\ battery.cost_without_solar = RAdd(UsageCost, supply_charge_total)
        /\ battery.cost_with_solar =
               RAdd(NetEnergyCost(combined.imported, combined.exported),
                    supply_charge_total)
        /\ battery.total_savings =
               RSub(battery.cost_without_solar, battery.cost_with_solar)

\* A costed run of two intervals where the battery made the cost with solar
\* differ from the solar-only one.
C11_Witness ==
    /\ pc = "save"
    /\ use_battery
    /\ n = 2
    /\ RPos(battery.total_savings)
    /\ RLt(battery.cost_with_solar, solar_only.cost_with_solar)

(* C12: tariff and export earnings.  The feed-in price of an interval is   *)
(* the peak price 0.10 exactly when the hour of its timestamp is between   *)
(* 15 and 20, both included, and the off-peak price 0.02 otherwise,        *)
(* whatever the dispatch did; the export earnings of a scenario are its    *)
(* peak exports at the peak price plus its off-peak exports at the         *)
(* off-peak price.                                                         *)
C12_TariffAndEarnings ==
    Costed =>
        LET peakRows == {k \in 1..n : Hour(combined.datetime[k]) \in 15..20}
            offRows == (1..n) \ peakRows
            Earned(exported) ==
                RAdd(RMul(SumOver(exported, peakRows), Rat(1, 10)),
                     RMul(SumOver(exported, offRows), Rat(1, 50)))
        IN  /\ \A k \in peakRows : feedin_rate[k] = Rat(1, 10)
            /\ \A k \in offRows : feedin_rate[k] = Rat(1, 50)
            /\ solar_only.export_earnings =
                   Earned(combined.exported_solar_only)
            /\ battery.export_earnings = Earned(combined.exported)

\* A costed run that exports in the last peak hour and in the hour after it.
C12_Witness ==
    /\ pc = "save"
    /\ n = 2
    /\ Hour(combined.datetime[1]) = 20
    /\ Hour(combined.datetime[2]) = 21
    /\ RPos(combined.exported[1])
    /\ RPos(combined.exported[2])

(* C13: supply charge.  The supply charge is the daily charge 1.1322 times *)
(* the number of distinct calendar dates among the timestamps of the       *)
(* dataset (a date counts once, however few of its hours are present, and  *)
(* a date without any interval does not count), and the same amount is     *)
(* part of both costs of both scenarios.                                   *)
C13_SupplyCharge ==
    Costed =>
        LET firstOfDate ==
                {k \in 1..n :
                    \A j \in 1..(k - 1) :
                        Date(combined.datetime[j]) # Date(combined.datetime[k])}
            charge == Rat(11322 * Cardinality(firstOfDate), 10000)
        IN  /\ total_days = Cardinality(firstOfDate)
            /\ supply_charge_total = charge
            /\ RSub(solar_only.cost_without_solar,
                    RMul(solar_only.total_usage, energy_rate)) = charge
            /\ RSub(battery.cost_without_solar,
                    RMul(battery.total_usage, energy_rate)) = charge
            /\ RAdd(RSub(solar_only.cost_with_solar,
                         RMul(solar_only.total_imported, energy_rate)),
                    solar_only.export_earnings) = charge
            /\ RAdd(RSub(battery.cost_with_solar,
                         RMul(battery.total_imported, energy_rate)),
                    battery.export_earnings) = charge

\* A costed run over two hours that are two days apart: two dates, and a
\* date in between that has no interval.
C13_Witness ==
    /\ pc = "save"
    /\ n = 2
    /\ Date(combined.datetime[1]) = 0
    /\ Date(combined.datetime[2]) = 2
    /\ total_days = 2

(* C14: payback.  When the savings of the battery scenario are positive    *)
(* the payback period is the system cost divided by them (so the system    *)
(* cost divided by the period gives the savings back, and a system cost    *)
(* of 0 a period of 0); otherwise it is the infinite sentinel, and no      *)
(* division takes place.                                                   *)
C14_Payback ==
    pc = "save" =>
        IF RPos(battery.total_savings)
        THEN IF system_cost = R(0)
             THEN payback_years = R(0)
             ELSE /\ RPos(payback_years)
                  /\ payback_years # Inf
                  /\ RDiv(system_cost, payback_years) = battery.total_savings
        ELSE payback_years = Inf

\* A run with a battery, positive savings and a system cost of 8 dollars.
C14_Witness ==
    /\ pc = "save"
    /\ use_battery
    /\ RPos(battery.total_savings)
    /\ system_cost = R(8)
    /\ RPos(payback_years)

(* C15: financial round trip.  With no solar production in any interval    *)
(* and no battery, every interval imports its usage and exports nothing    *)
(* in both scenarios, the cost with solar equals the cost without solar,   *)
(* the savings are 0 and the payback period is the infinite sentinel.      *)
C15_ZeroSolarNoBattery ==
    ( /\ pc = "save"
      /\ ~use_battery
      /\ \A k \in 1..n : combined.solar_kwh[k] = R(0) )
    =>
        /\ \A k \in 1..n :
              /\ combined.imported[k] = combined.usage_kwh[k]
              /\ combined.exported[k] = R(0)
              /\ combined.imported_solar_only[k] = combined.usage_kwh[k]
              /\ combined.exported_solar_only[k] = R(0)
        /\ solar_only.cost_with_solar = solar_only.cost_without_solar
        /\ solar_only.total_savings = R(0)
        /\ battery.cost_with_solar = battery.cost_without_solar
        /\ battery.total_savings = R(0)
        /\ payback_years = Inf

\* A finished run without battery over two intervals without solar, one of
\* them in the peak window, with a system cost of 8 dollars.
C15_Witness ==
    /\ pc = "save"
    /\ ~use_battery
    /\ n = 2
    /\ \A k \in 1..n : combined.solar_kwh[k] = R(0)
    /\ is_peak[1]
    /\ RPos(battery.cost_without_solar)
    /\ system_cost = R(8)

(* C16: scenario independence.  Whatever battery the user configures, the  *)
(* usage and solar inputs and the solar-only columns stay what Steps 4 and *)
(* 5 made of the two input series, and the solar-only summary (energy      *)
(* totals and money) is the one those columns give: the battery pass       *)
(* changes none of them.                                                   *)
C16_ScenarioIndependence ==
    LET ref == WithSolarOnlyColumns(MergeInner(solar_data, meter_data))
    IN  /\ InLoop =>
              /\ combined.datetime = ref.datetime
              /\ combined.usage_kwh = ref.usage_kwh
              /\ combined.solar_kwh = ref.solar_kwh
              /\ combined.self_consumed_solar_only =
                     ref.self_consumed_solar_only
              /\ combined.exported_solar_only = ref.exported_solar_only
              /\ combined.imported_solar_only = ref.imported_solar_only
        /\ pc \in {"done", "payback", "save"} =>
              /\ solar_only.total_self_consumed =
                     RSum(ref.self_consumed_solar_only)
              /\ solar_only.total_exported = RSum(ref.exported_solar_only)
              /\ solar_only.total_imported = RSum(ref.imported_solar_only)
              /\ solar_only.total_usage = RSum(ref.usage_kwh)
              /\ solar_only.total_solar = RSum(ref.solar_kwh)
        /\ Costed =>
              /\ solar_only.export_earnings =
                     SumProduct(ref.exported_solar_only, feedin_rate)
              /\ solar_only.cost_with_solar =
                     RAdd(NetEnergyCost(ref.imported_solar_only,
                                        ref.exported_solar_only),
                          supply_charge_total)
              /\ solar_only.cost_without_solar =
                     RAdd(RMul(RSum(ref.usage_kwh), energy_rate),
                          supply_charge_total)

\* A costed run where the battery changed both the imports and the exports.
C16_Witness ==
    /\ pc = "save"
    /\ use_battery
    /\ RPos(battery_capacity)
    /\ RLt(battery.total_imported, solar_only.total_imported)
    /\ RLt(battery.total_exported, solar_only.total_exported)

----------------------------------------------------------------------------
(* Vocabulary of the alignment property.                                   *)

\* The merge of line 60 is over.
Merged == pc \in {"solar_only", "battery_config"}

\* The timestamps of a frame.
Stamps(f) == {f.datetime[k] : k \in 1..Len(f.datetime)}

\* No two rows of the frame have the same timestamp.
UniqueStamps(f) ==
    \A j, k \in 1..Len(f.datetime) : f.datetime[j] = f.datetime[k] => j = k

(* C17: alignment.  The intervals of the merged frame have exactly the     *)
(* timestamps that occur in both the provider's and the meter's series,    *)
(* compared for equality; every interval carries the solar value and the   *)
(* usage value that the two series have at its timestamp, in the order of  *)
(* the provider's series; a timestamp that occurs once in each series      *)
(* gives one interval, and none is invented or filled in.                  *)
C17_Alignment ==
    Merged =>
        /\ Stamps(combined) = Stamps(solar_data) \cap Stamps(meter_data)
        /\ \A k \in 1..Len(combined.datetime) :
              \E l \in 1..Len(solar_data.datetime),
                 r \in 1..Len(meter_data.datetime) :
                  /\ solar_data.datetime[l] = combined.datetime[k]
                  /\ meter_data.datetime[r] = combined.datetime[k]
                  /\ solar_data.ac[l] = combined.ac[k]
                  /\ meter_data.usage_kwh[r] = combined.usage_kwh[k]
        /\ \A j, k \in 1..Len(combined.datetime) :
              j < k => combined.datetime[j] <= combined.datetime[k]
        /\ UniqueStamps(meter_data) =>
              /\ UniqueStamps(combined)
              /\ Len(combined.datetime) =
                     Cardinality(Stamps(solar_data) \cap Stamps(meter_data))
        /\ Len(combined.ac) = Len(combined.datetime)
        /\ Len(combined.usage_kwh) = Len(combined.datetime)

\* A merge of a provider's series of two hours with a meter file that has
\* the second of them and a half-hour reading: one interval, at 01:00.
C17_Witness ==
    /\ pc = "solar_only"
    /\ Len(solar_data.datetime) = 2
    /\ meter_data.datetime = <<30, 60>>
    /\ combined.datetime = <<60>>
    /\ combined.usage_kwh = <<R(5)>>

----------------------------------------------------------------------------

\* Row k of the frame lacks its usage or its solar value.
Missing(k) == IsNaN(combined.usage_kwh[k]) \/ IsNaN(combined.solar_kwh[k])

(* C18: missing data is never silently treated as zero.  The dispatch      *)
(* records no interval whose usage or solar value is missing with the      *)
(* flows that a value of 0 would give, an import of 0 and an export of 0:  *)
(* the condition is surfaced as an error instead.  Stated for the valid    *)
(* battery configurations.                                                 *)
C18_MissingSurfaced ==
    (InLoop /\ ValidConfig) =>
        \A k \in Processed :
            Missing(k) =>
                ~(combined.imported[k] = R(0) /\ combined.exported[k] = R(0))

----------------------------------------------------------------------------
(* Vocabulary of the process properties.                                   *)

\* The label that run_test.py gives to the line meant for a prompt of
\* main(); "none" for a prompt that no line is meant for.
LabelFor(prompt) ==
    CASE prompt = "Enter system size (kW): " -> "System size (kW)"
      [] prompt = "Enter system cost ($): " -> "System cost ($)"
      [] prompt = "Enter tilt angle (degrees): " -> "Tilt angle (degrees)"
      [] prompt = "Enter azimuth angle (degrees): " ->
             "Azimuth angle (degrees)"
      [] prompt = "Include battery? (y/n): " -> "Include battery? (y/n)"
      [] prompt = "Enter DC to AC ratio: " -> "DC to AC ratio"
      [] prompt = "Enter ground coverage ratio: " -> "Ground coverage ratio"
      [] prompt = "Enter DC capacity factor (%): " -> "DC capacity factor"
      [] OTHER -> "none"

\* The user has answered "y" to check_existing_files() before event k.
ConfirmedBefore(k) ==
    \E j \in 1..(k - 1) :
        /\ log[j].op = "input"
        /\ log[j].prompt = "Do you want to proceed? (y/n): "
        /\ Lower(log[j].text) = "y"

(* C19: test-run input protocol.  When run_test.py drives the calculator,   *)
(* every prompt that reads one of its predefined lines reads the line      *)
(* labelled for that prompt, and no prompt finds the lines exhausted.       *)
C19_InputProtocol ==
    entry = "run_test" =>
        /\ \A k \in 1..Len(log) :
              (log[k].op = "input" /\ log[k].label # "terminal") =>
                  log[k].label = LabelFor(log[k].prompt)
        /\ pc # "EOFError"

(* C20: overwrite confirmation.  No file that exists is overwritten before *)
(* check_existing_files() has asked the user and read "y".                 *)
C20_OverwriteConfirmed ==
    \A k \in 1..Len(log) :
        (log[k].op = "write" /\ log[k].existed) => ConfirmedBefore(k)

\* The Solar_data.py step of this invocation has saved the provider's series.
Fetched ==
    \E j \in 1..Len(log) : log[j].op = "write" /\ log[j].file = SolarFile

\* Event k of the history saves the results of the simulation.
SavesResults(k) ==
    log[k].op = "write" /\ log[k].file \in {ResultsFile, SummaryFile}

(* C21: fetch before simulate.  The simulation runs, and its results are    *)
(* saved, only when the Solar_data.py step of the same invocation has       *)
(* saved the solar data: after a failed step the calculator neither         *)
(* simulates nor saves results from a solar data file of an earlier run.    *)
C21_FetchBeforeSimulate ==
    /\ pc = "simulate" => Fetched
    /\ \A k \in 1..Len(log) : SavesResults(k) => Fetched

----------------------------------------------------------------------------

(* C22: the battery never worsens the energy flows.  For a valid battery   *)
(* configuration every recorded interval imports no more and exports no    *)
(* more than the solar-only columns of that interval say, and consumes at  *)
(* least their self-consumption; the totals of the battery scenario stand  *)
(* in the same relation to the totals of the solar-only scenario.          *)
C22_BatteryNeverWorsensFlows ==
    (InLoop /\ ValidConfig) =>
        /\ \A k \in Processed :
              /\ RLeq(combined.imported[k], combined.imported_solar_only[k])
              /\ RLeq(combined.exported[k], combined.exported_solar_only[k])
              /\ RLeq(combined.self_consumed_solar_only[k],
                      combined.self_consumed[k])
        /\ pc = "done" =>
              /\ RLeq(battery.total_imported, solar_only.total_imported)
              /\ RLeq(battery.total_exported, solar_only.total_exported)
              /\ RLeq(solar_only.total_self_consumed,
                      battery.total_self_consumed)

\* A finished run with a valid battery that has charged in one interval and
\* discharged in the other: all three totals differ from the solar-only ones.
C22_Witness ==
    /\ pc = "done"
    /\ use_battery
    /\ ValidConfig
    /\ RLt(battery.total_imported, solar_only.total_imported)
    /\ RLt(battery.total_exported, solar_only.total_exported)
    /\ RLt(solar_only.total_self_consumed, battery.total_self_consumed)
    /\ RPos(battery.total_exported)
    /\ RPos(battery.total_imported)

----------------------------------------------------------------------------

(* C23: the battery never lowers the savings.  For a valid battery         *)
(* configuration the total_savings of the battery scenario are at least    *)
(* those of the solar-only scenario, and its cost_with_solar is at most    *)
(* the solar-only cost_with_solar.                                         *)
C23_BatteryNeverLowersSavings ==
    (Costed /\ ValidConfig) =>
        /\ RLeq(solar_only.total_savings, battery.total_savings)
        /\ RLeq(battery.cost_with_solar, solar_only.cost_with_solar)

----------------------------------------------------------------------------

(* C24: mutual exclusion of the flows of an interval.  In every recorded   *)
(* interval at most one of battery_charge and battery_discharge is         *)
(* non-zero and at most one of exported and imported is non-zero; an       *)
(* interval that imports has battery_charge = 0 and exported = 0 (the      *)
(* battery is never charged from the grid), and an interval that exports   *)
(* has battery_discharge = 0 and imported = 0 (the battery never           *)
(* discharges to the grid).                                                *)
C24_MutualExclusion ==
    InLoop =>
        \A k \in Processed :
            LET charge == combined.battery_charge[k]
                discharge == combined.battery_discharge[k]
                exp == combined.exported[k]
                imp == combined.imported[k]
            IN  /\ charge = R(0) \/ discharge = R(0)
                /\ exp = R(0) \/ imp = R(0)
                /\ RPos(imp) => (charge = R(0) /\ exp = R(0))
                /\ RPos(exp) => (discharge = R(0) /\ imp = R(0))

\* A finished run whose first interval charges the battery and still
\* exports, and whose second interval discharges it and still imports.
C24_Witness ==
    /\ pc = "done"
    /\ use_battery
    /\ n = 2
    /\ RPos(combined.battery_charge[1])
    /\ RPos(combined.exported[1])
    /\ RPos(combined.battery_discharge[2])
    /\ RPos(combined.imported[2])

----------------------------------------------------------------------------

\* What the battery holds after row k by the books: the efficiency times
\* all it was charged with up to row k, less all it has discharged.
StoredLessDelivered(k) ==
    RSub(RMul(round_trip_eff, SumOver(combined.battery_charge, 1..k)),
         SumOver(combined.battery_discharge, 1..k))

(* C25: state-of-charge accounting.  After every interval the recorded     *)
(* battery_soc equals the round-trip efficiency times the sum of           *)
(* battery_charge up to that interval less the sum of battery_discharge up *)
(* to it, and so does soc; hence, in every run, at no interval has the     *)
(* battery delivered more than the efficiency times what it was charged    *)
(* with, and total_battery_discharge is at most the efficiency times       *)
(* total_battery_charge.                                                   *)
C25_SocAccounting ==
    InLoop =>
        /\ \A k \in Processed : combined.battery_soc[k] = StoredLessDelivered(k)
        /\ soc = StoredLessDelivered(n)
        /\ \A k \in Processed :
              RLeq(SumOver(combined.battery_discharge, 1..k),
                   RMul(round_trip_eff,
                        SumOver(combined.battery_charge, 1..k)))
        /\ pc = "done" =>
              RLeq(battery.total_battery_discharge,
                   RMul(round_trip_eff, battery.total_battery_charge))

----------------------------------------------------------------------------

\* No interval has a negative usage or a negative solar production.
NonNegativeInputs ==
    \A k \in 1..Len(combined.usage_kwh) :
        /\ RLeq(R(0), combined.usage_kwh[k])
        /\ RLeq(R(0), combined.solar_kwh[k])

(* C26: savings are never negative.  For non-negative usage and solar and  *)
(* a valid battery configuration every interval imports at most its usage  *)
(* in both scenarios, the export earnings of both scenarios are >= 0 and   *)
(* so are both total_savings; hence the payback period is the infinite     *)
(* sentinel only when the total_savings are exactly 0.                     *)
C26_SavingsNeverNegative ==
    (Costed /\ ValidConfig /\ NonNegativeInputs) =>
        /\ \A k \in 1..n :
              /\ RLeq(combined.imported[k], combined.usage_kwh[k])
              /\ RLeq(combined.imported_solar_only[k], combined.usage_kwh[k])
        /\ RLeq(R(0), solar_only.export_earnings)
        /\ RLeq(R(0), battery.export_earnings)
        /\ RLeq(R(0), solar_only.total_savings)
        /\ RLeq(R(0), battery.total_savings)
        /\ (pc = "save" /\ payback_years = Inf) =>
               battery.total_savings = R(0)

\* A run with a battery over intervals that use energy but produce none:
\* the savings are 0 and the payback period is the sentinel.
C26_Witness ==
    /\ pc = "save"
    /\ use_battery
    /\ RPos(battery_capacity)
    /\ RPos(battery.total_usage)
    /\ battery.total_savings = R(0)
    /\ solar_only.total_savings = R(0)
    /\ payback_years = Inf
    /\ system_cost = R(8)

----------------------------------------------------------------------------

\* Event k of the history is a request to the provider.
IsRequest(k) == log[k].op = "request"

(* C27: the provider request uses the collected parameters.  The system    *)
(* losses, the module type and the array type that get_user_input()        *)
(* collected and validate_parameters() accepted are the values of the      *)
(* request that fetch_solar_data() sends, as the system capacity, the tilt *)
(* and the azimuth are.                                                    *)
C27_RequestUsesCollected ==
    \A k \in 1..Len(log) :
        IsRequest(k) =>
            /\ log[k].params.system_capacity = params.system_capacity
            /\ log[k].params.tilt = params.tilt
            /\ log[k].params.azimuth = params.azimuth
            /\ log[k].params.losses = params.losses
            /\ log[k].params.module_type = params.module_type
            /\ log[k].params.array_type = params.array_type

====
